---- MODULE Spec2Model ----
(***************************************************************************)
(* Model of the feedback-mcp pending-request broker: the intent_queue      *)
(* table, collect_user_intent with its chat-relay push and the Broker loop *)
(* of core._collect_via_web (store failures included), the history sweep,  *)
(* the web endpoints of web.py / web_multi_tenant.py, the chat-relay       *)
(* inbound handler of feishu_ws_listener.py, the MessageRouter of          *)
(* routing.py, the user directory of users.py, the admin initialization    *)
(* and sessions of auth.py and the OAuth state of oauth.py.  The table is  *)
(* taken to have the user_id column (web_multi_tenant.init_intent_db).     *)
(***************************************************************************)
EXTENDS Integers, FiniteSets, Sequences, TLC

\* ---------------------------------------------------------------- bounds
\* Broker calls in flight over a run; call c uses request id c (uuid4).
MaxCalls == 2
\* Rows created through MessageRouter.create_pending_request.
MaxRouterReqs == 2
\* The clock (seconds) runs from 0 to MaxTime.
MaxTime == 2
\* Times a user's api_key may be regenerated.
MaxRegen == 1

\* Requests to POST /api/system/initialize over a run.
MaxInits == 2
\* Admin session tokens created over a run.
MaxSessions == 2
\* OAuth state values generated over a run.
MaxStates == 2

\* USERINTENT_TIMEOUT, scaled from 3000 seconds to clock ticks.
DEFAULT_TIMEOUT == 1

\* ---------------------------------------------------------------- values
NULL == "NULL"
NoTime == -1

Calls == 1..MaxCalls
RouterIds == (MaxCalls + 1)..(MaxCalls + MaxRouterReqs)
Ids == Calls \cup RouterIds
Users == {"ou_A", "ou_B"}
Times == 0..MaxTime

\* api keys are <<open_id, generation>>: secrets.token_hex never repeats.
EmptyKey == <<"", 0>>
BadKey == <<"ou_X", 0>>
IssuedKeys == Users \X (0..MaxRegen)
KeyStrings == IssuedKeys \cup {BadKey, EmptyKey}

\* reply.answer is a str (the empty string included); image is optional.
Answers == {"", "yes", "no"}
Images == {NULL, "data:image/png;base64,AA"}
\* The reply bodies the web channel is driven with: <<answer, image>>.
Replies == {<<"", NULL>>, <<"yes", NULL>>, <<"no", "data:image/png;base64,AA">>}
\* The texts the relay is driven with.
RelayTexts == {"", "yes"}

Attempts == 1..MaxInits
\* Admin names and passwords a request may carry ("ab" and "short" fail the
\* length checks of AdminAuth.initialize).
Usernames == {"admin", "ab"}
Passwords == {"password-1", "password-2", "short"}

Question(i) == <<"q", i>>
\* state.current_question before any call: None
NoQuestion == <<"NULL", 0>>

VARIABLES
    queue,      \* intent_queue: request id -> row, for the ids present
    users,      \* users table: open_id -> [api_key, is_active]
    now,        \* wall clock
    call,       \* Broker calls: position, loop timing and returned result
    listener,   \* FeishuWSListener._store_reply: position and selected id
    resp,       \* the last response of a pending-list operation
    state,      \* core.state, the in-process test hook
    push,       \* per call: the chat-relay push of collect_user_intent
    router,     \* MessageRouter.receive_reply: position and selected id
    admin_config,   \* admin_config table: admin_username and password_hash
    initializer,    \* POST /api/system/initialize requests: position, outcome
    admin_sessions, \* admin_sessions table: token -> expires_at
    valid_states,   \* FeishuOAuth._valid_states: state -> expires_at
    issued,         \* how many session tokens and OAuth states were generated
    auth_resp       \* the last value validate_session / validate_state returned

\* The variables of auth.py and oauth.py
auth_vars == <<admin_config, initializer, admin_sessions, valid_states, issued, auth_resp>>

vars == <<queue, users, now, call, listener, resp, state, push, router, auth_vars>>

\* The Authorization header as scheme prefix and remainder; a request to
\* GET /api/poll carries it and possibly an api_key query parameter.
NoKey == <<"NULL", 0>>
NoHeader == [present |-> FALSE, scheme |-> "", rest |-> EmptyKey]
EmptyHeader == [present |-> TRUE, scheme |-> "", rest |-> EmptyKey]
Bearer(k) == [present |-> TRUE, scheme |-> "Bearer ", rest |-> k]
Raw(k) == [present |-> TRUE, scheme |-> "", rest |-> k]
Headers ==
    {NoHeader, EmptyHeader}
        \cup {Bearer(k) : k \in KeyStrings}
        \cup {Raw(<<u, 0>>) : u \in Users}
PollRequests ==
    [authorization : Headers, api_key : {NoKey}]
        \cup [authorization : {NoHeader}, api_key : {<<u, 0>> : u \in Users} \cup {BadKey}]
NoRequest == [authorization |-> NoHeader, api_key |-> NoKey]

\* admin_config before initialization holds no password_hash row
NoHash == <<"NULL", "NULL">>
\* Nothing validated yet
NoAuthResp == [op |-> "none", arg |-> 0, ok |-> FALSE]

\* No push attempted: the key the call resolved and the outcome of the send
NoPush == [status |-> "none", key |-> NoKey, tracked |-> FALSE]

NoResult == [kind |-> "none", answer |-> NULL, image |-> NULL, via |-> "none"]

Init ==
    /\ queue = <<>>
    /\ users = <<>>
    /\ now = 0
    /\ call = [c \in Calls |-> [pc |-> "idle", start |-> NoTime, next |-> NoTime,
                                result |-> NoResult]]
    /\ listener = [pc |-> "idle", sender |-> NULL, text |-> NULL, sel |-> 0]
    /\ resp = [op |-> "none", req |-> NoRequest, open_id |-> NULL, out |-> {}]
    /\ state = [current_question |-> NoQuestion, answer_event |-> FALSE,
                user_answer |-> NULL]
    /\ push = [c \in Calls |-> NoPush]
    /\ router = [pc |-> "idle", sender |-> NULL, text |-> NULL, sel |-> 0]
    /\ admin_config = [admin_username |-> NULL, password_hash |-> NoHash]
    /\ initializer = [a \in Attempts |->
                        [pc |-> "idle", username |-> NULL, password |-> NULL,
                         ret |-> "none", out |-> "none"]]
    /\ admin_sessions = <<>>
    /\ valid_states = <<>>
    /\ issued = [sessions |-> 0, states |-> 0]
    /\ auth_resp = NoAuthResp

\* ---------------------------------------------------------------- store helpers
Has(i) == i \in DOMAIN queue

\* DELETE FROM intent_queue WHERE id IN S
DeleteRows(q, S) == [i \in (DOMAIN q) \ S |-> q[i]]

\* INSERT of a row with a fresh id
InsertRow(q, i, row) == [j \in (DOMAIN q) \cup {i} |-> IF j = i THEN row ELSE q[j]]

\* ---------------------------------------------------------------- users.py
\* A variant of the generator whose keys do not depend on the user.
GenerateApiKey_Shared(u, g) == <<"ou_A", g>>

\* UserManager._generate_api_key: a key no other user and no earlier
\* generation of this user holds.
GenerateApiKey(u, g) == <<u, g>>

\* A variant of the lookup without the is_active test.
get_user_by_api_key_AnyUser(k) ==
    IF \E u \in DOMAIN users : users[u].api_key = k
    THEN CHOOSE u \in DOMAIN users : users[u].api_key = k
    ELSE NULL

\* UserManager.get_user_by_api_key: the open_id of the active user holding
\* the key, or NULL.
get_user_by_api_key(k) ==
    IF \E u \in DOMAIN users : users[u].api_key = k /\ users[u].is_active
    THEN CHOOSE u \in DOMAIN users : users[u].api_key = k /\ users[u].is_active
    ELSE NULL

\* A variant of the update that also writes is_active = 1 and a new key,
\* as the INSERT does.
UpdateUserInfo_AsInsert(us, u) ==
    [us EXCEPT ![u] = [api_key |-> GenerateApiKey(u, MaxRegen), is_active |-> TRUE]]

\* UserManager._update_user_info: the UPDATE sets profile and token columns
\* and the login time, which the model does not carry; api_key and
\* is_active are not in its SET list.
UpdateUserInfo(us, u) == [us EXCEPT ![u] = [api_key |-> us[u].api_key,
                                            is_active |-> us[u].is_active]]

\* UserManager.create_user: INSERT with a fresh key; on IntegrityError (the
\* open_id exists) _update_user_info rewrites profile fields only.
CreateUser(us, u) ==
    IF u \in DOMAIN us
    THEN UpdateUserInfo(us, u)
    ELSE [v \in (DOMAIN us) \cup {u} |->
            IF v = u
            THEN [api_key |-> GenerateApiKey(u, 0), is_active |-> TRUE]
            ELSE us[v]]

create_user(u) ==
    /\ users' = CreateUser(users, u)
    /\ UNCHANGED <<queue, now, call, listener, resp, state, push, router, auth_vars>>

SetActive(u, b) == IF u \in DOMAIN users THEN [users EXCEPT ![u].is_active = b] ELSE users

disable_user(u) ==
    /\ users' = SetActive(u, FALSE)
    /\ UNCHANGED <<queue, now, call, listener, resp, state, push, router, auth_vars>>

enable_user(u) ==
    /\ users' = SetActive(u, TRUE)
    /\ UNCHANGED <<queue, now, call, listener, resp, state, push, router, auth_vars>>

\* UserManager.regenerate_api_key: a new random key replaces the old one.
regenerate_api_key(u) ==
    /\ u \in DOMAIN users
    /\ users[u].api_key[2] < MaxRegen
    /\ users' = [users EXCEPT ![u].api_key = GenerateApiKey(u, users[u].api_key[2] + 1)]
    /\ UNCHANGED <<queue, now, call, listener, resp, state, push, router, auth_vars>>

\* ---------------------------------------------------------------- core.py
\* HISTORY_RETENTION_DAYS (USERINTENT_HISTORY_DAYS) and the length of a day
\* in clock ticks.
HISTORY_RETENTION_DAYS == 1
DayTicks == 1

\* The retention settings a process may run with (USERINTENT_HISTORY_DAYS,
\* the days argument of the router's sweep): negative, zero, positive.
Retentions == {-1, 0, HISTORY_RETENTION_DAYS}

\* A variant of the sweep that deletes COMPLETED rows of any age.
CleanupOldHistory_AnyAge(q, days) ==
    IF days <= 0
    THEN q
    ELSE DeleteRows(q, {i \in DOMAIN q : q[i].status = "COMPLETED"})

\* The body of core.cleanup_old_history for a retention setting of days:
\* DELETE ... WHERE status = 'COMPLETED' AND completed_at < datetime('now', '-N days')
CleanupOldHistory(q, days) ==
    IF days <= 0
    THEN q
    ELSE DeleteRows(q, {i \in DOMAIN q :
                          /\ q[i].status = "COMPLETED"
                          /\ q[i].completed_at # NoTime
                          /\ q[i].completed_at < now - days * DayTicks})

\* core.cleanup_old_history
cleanup_old_history(q) == CleanupOldHistory(q, HISTORY_RETENTION_DAYS)

\* cleanup_old_history run by a Broker process configured with days
CleanupOldHistoryRun(days) ==
    /\ queue' = CleanupOldHistory(queue, days)
    /\ UNCHANGED <<users, now, call, listener, resp, state, push, router, auth_vars>>

\* core._get_user_id_from_api_key: os.getenv("USERINTENT_API_KEY") resolved
\* through UserManager; an unset or empty variable gives None.
get_user_id_from_api_key(env_key) ==
    IF env_key = EmptyKey THEN NULL ELSE get_user_by_api_key(env_key)

\* Python truthiness of the answer column
Truthy(a) == a # NULL /\ a # ""

\* The value _collect_via_web returns for a COMPLETED row
AnswerResult(row) ==
    [kind |-> "answer", answer |-> row.answer,
     image |-> IF row.image # NULL THEN row.image ELSE NULL, via |-> "store"]

TimeoutResult == [kind |-> "timeout", answer |-> NULL, image |-> NULL, via |-> "none"]
DismissedResult == [kind |-> "dismissed", answer |-> NULL, image |-> NULL, via |-> "none"]
\* "Native Test Hook": the value of state.user_answer
HookResult == [kind |-> "answer", answer |-> state.user_answer, image |-> NULL,
               via |-> "hook"]

\* _collect_via_web up to the loop: resolve the owner, INSERT the PENDING
\* row, take start_time.
Submit(c, env_key) ==
    /\ call[c].pc = "idle"
    /\ ~Has(c)
    /\ push[c].key \in {NoKey, env_key}
    /\ queue' = InsertRow(queue, c,
                    [question |-> Question(c), answer |-> NULL, image |-> NULL,
                     status |-> "PENDING",
                     user_id |-> get_user_id_from_api_key(env_key),
                     open_id |-> NULL,
                     created_at |-> now, completed_at |-> NoTime])
    /\ state' = [current_question |-> Question(c), answer_event |-> FALSE,
                 user_answer |-> NULL]
    /\ call' = [call EXCEPT ![c] = [pc |-> "polling", start |-> now, next |-> now,
                                    result |-> NoResult]]
    /\ UNCHANGED <<users, now, listener, resp, push, router, auth_vars>>

Return(c, res) == [call EXCEPT ![c].pc = "done", ![c].result = res]

\* A variant of the timeout cleanup that leaves the row in the table.
TimeoutCleanup_KeepRow(q, c) == q

\* "Timeout - cleanup": DELETE FROM intent_queue WHERE id = ?
TimeoutCleanup(q, c) == DeleteRows(q, {c})

\* A variant of the hook branch that returns without the DELETE.
HookCleanup_KeepRow(q, c) == q

\* "Clean up DB for consistency" of the test-hook branch: DELETE ... WHERE id = ?
HookCleanup(q, c) == DeleteRows(q, {c})

\* One pass of the while loop of _collect_via_web, from the loop test to the
\* sleep or the return; the final DELETE and return when the test fails.
BrokerIter(c) ==
    /\ call[c].pc = "polling"
    /\ now >= call[c].next
    /\ IF ~(now - call[c].start < DEFAULT_TIMEOUT)
       THEN /\ queue' = TimeoutCleanup(queue, c)
            /\ call' = Return(c, TimeoutResult)
       ELSE IF state.answer_event
       THEN /\ queue' = HookCleanup(queue, c)
            /\ call' = Return(c, HookResult)
       ELSE IF Has(c) /\ queue[c].status = "DISMISSED"
       THEN /\ queue' = DeleteRows(queue, {c})
            /\ call' = Return(c, DismissedResult)
       ELSE IF Has(c) /\ queue[c].status = "COMPLETED" /\ Truthy(queue[c].answer)
       THEN /\ queue' = cleanup_old_history(queue)
            /\ call' = Return(c, AnswerResult(queue[c]))
       ELSE /\ queue' = queue
            /\ call' = [call EXCEPT ![c].next = now + 1]
    /\ UNCHANGED <<users, now, listener, resp, state, push, router, auth_vars>>

\* ---------------------------------------------------------------- web.py, web_multi_tenant.py
\* A variant of the reply that writes INSERT OR REPLACE: an id the table does
\* not hold gets a COMPLETED row.
UpdateReply_Upsert(q, i, a, img) ==
    IF i \in DOMAIN q
    THEN [q EXCEPT ![i].answer = a, ![i].image = img, ![i].status = "COMPLETED",
                   ![i].completed_at = now]
    ELSE InsertRow(q, i,
            [question |-> Question(i), answer |-> a, image |-> img,
             status |-> "COMPLETED", user_id |-> NULL, open_id |-> NULL,
             created_at |-> now, completed_at |-> now])

\* UPDATE intent_queue SET answer, image, status = 'COMPLETED', completed_at WHERE id = ?
UpdateReply(q, i, a, img) ==
    IF i \in DOMAIN q
    THEN [q EXCEPT ![i].answer = a, ![i].image = img, ![i].status = "COMPLETED",
                   ![i].completed_at = now]
    ELSE q

\* POST /api/reply
receive_reply(i, a, img) ==
    /\ queue' = UpdateReply(queue, i, a, img)
    /\ UNCHANGED <<users, now, call, listener, resp, state, push, router, auth_vars>>

\* A variant of the dismiss that also clears the owner columns.
UpdateDismiss_ClearsOwner(q, i) ==
    IF i \in DOMAIN q
    THEN [q EXCEPT ![i].status = "DISMISSED", ![i].user_id = NULL, ![i].open_id = NULL]
    ELSE q

\* UPDATE intent_queue SET status = 'DISMISSED' WHERE id = ?
UpdateDismiss(q, i) ==
    IF i \in DOMAIN q THEN [q EXCEPT ![i].status = "DISMISSED"] ELSE q

\* DELETE /api/request/{request_id}
delete_request(i) ==
    /\ queue' = UpdateDismiss(queue, i)
    /\ UNCHANGED <<users, now, call, listener, resp, state, push, router, auth_vars>>

\* DELETE /api/history/{history_id}
delete_history_item(i) ==
    /\ queue' = IF Has(i) /\ queue[i].status = "COMPLETED"
                THEN DeleteRows(queue, {i}) ELSE queue
    /\ UNCHANGED <<users, now, call, listener, resp, state, push, router, auth_vars>>

\* web_multi_tenant._get_api_key_from_header
get_api_key_from_header(h) ==
    IF ~h.present \/ (h.scheme = "" /\ h.rest = EmptyKey)
    THEN NoKey
    ELSE IF h.scheme = "Bearer " THEN h.rest ELSE NoKey

\* The ids a SELECT ... WHERE status = 'PENDING' AND user_id = ? returns
PendingOf(q, u) == {i \in DOMAIN q : q[i].status = "PENDING" /\ q[i].user_id = u}

\* web_multi_tenant.poll_question: the handler reads the Authorization header
\* only; a query parameter of the request is not a parameter of the handler.
PollQuestion(req) ==
    LET api_key == get_api_key_from_header(req.authorization) IN
    IF api_key # NoKey /\ api_key # EmptyKey
    THEN LET user == get_user_by_api_key(api_key) IN
         IF user # NULL THEN PendingOf(queue, user) ELSE {}
    ELSE PendingOf(queue, NULL)

\* GET /api/poll of web_multi_tenant.py
poll_question(req) ==
    /\ resp' = [op |-> "poll", req |-> req, open_id |-> NULL, out |-> PollQuestion(req)]
    /\ UNCHANGED <<queue, users, now, call, listener, state, push, router, auth_vars>>

\* web.poll_question: every PENDING row
WebPollQuestion == {i \in DOMAIN queue : queue[i].status = "PENDING"}

\* GET /api/poll of web.py
web_poll_question ==
    /\ resp' = [op |-> "web_poll", req |-> NoRequest, open_id |-> NULL,
                out |-> WebPollQuestion]
    /\ UNCHANGED <<queue, users, now, call, listener, state, push, router, auth_vars>>

\* ---------------------------------------------------------------- routing.py
\* MessageRouter.create_pending_request: False on IntegrityError
create_pending_request(i, u) ==
    /\ queue' = IF Has(i)
                THEN queue
                ELSE InsertRow(queue, i,
                        [question |-> Question(i), answer |-> NULL, image |-> NULL,
                         status |-> "PENDING", user_id |-> NULL, open_id |-> u,
                         created_at |-> now, completed_at |-> NoTime])
    /\ UNCHANGED <<users, now, call, listener, resp, state, push, router, auth_vars>>

\* MessageRouter.get_pending_requests (the limit of 10 exceeds the rows here)
GetPendingRequests(u) ==
    {i \in DOMAIN queue :
        /\ queue[i].status = "PENDING"
        /\ (u # NULL /\ u # "") => queue[i].open_id = u}

get_pending_requests(u) ==
    /\ resp' = [op |-> "router", req |-> NoRequest, open_id |-> u,
                out |-> GetPendingRequests(u)]
    /\ UNCHANGED <<queue, users, now, call, listener, state, push, router, auth_vars>>

\* MessageRouter.cleanup_old_requests(days): the same DELETE with no test of
\* days. SQLite evaluates datetime('now', '-0 days') to now and
\* datetime('now', '--1 days') to NULL, which compares with nothing.
CleanupOldRequests(q, days) ==
    IF days < 0
    THEN q
    ELSE DeleteRows(q, {i \in DOMAIN q :
                          /\ q[i].status = "COMPLETED"
                          /\ q[i].completed_at # NoTime
                          /\ q[i].completed_at < now - days * DayTicks})

cleanup_old_requests(days) ==
    /\ queue' = CleanupOldRequests(queue, days)
    /\ UNCHANGED <<users, now, call, listener, resp, state, push, router, auth_vars>>

\* MessageRouter.receive_reply, the SELECT of the sender's oldest PENDING row
\* by open_id (no row: matched False)
OldestPendingByOpenId(q, s) ==
    {i \in DOMAIN q :
        /\ q[i].open_id = s /\ q[i].status = "PENDING"
        /\ \A j \in DOMAIN q :
              (q[j].open_id = s /\ q[j].status = "PENDING")
                 => q[i].created_at <= q[j].created_at}

RouterReplySelect(s, text) ==
    /\ router.pc = "idle"
    /\ OldestPendingByOpenId(queue, s) # {}
    /\ \E i \in OldestPendingByOpenId(queue, s) :
          router' = [pc |-> "update", sender |-> s, text |-> text, sel |-> i]
    /\ UNCHANGED <<queue, users, now, call, listener, resp, state, push, auth_vars>>

\* MessageRouter.receive_reply, the UPDATE by id and the commit
RouterReplyUpdate ==
    /\ router.pc = "update"
    /\ queue' = IF Has(router.sel)
                THEN [queue EXCEPT ![router.sel].answer = router.text,
                                   ![router.sel].status = "COMPLETED",
                                   ![router.sel].completed_at = now]
                ELSE queue
    /\ router' = [pc |-> "idle", sender |-> NULL, text |-> NULL, sel |-> 0]
    /\ UNCHANGED <<users, now, call, listener, resp, state, push, auth_vars>>

\* ---------------------------------------------------------------- feishu_ws_listener.py
\* SELECT id ... WHERE user_id = ? AND status = 'PENDING' ORDER BY created_at
\* ASC LIMIT 1: the candidates (rows of equal created_at are tied).
OldestPending(q, s) ==
    {i \in DOMAIN q :
        /\ q[i].user_id = s /\ q[i].status = "PENDING"
        /\ \A j \in DOMAIN q :
              (q[j].user_id = s /\ q[j].status = "PENDING")
                 => q[i].created_at <= q[j].created_at}

\* _store_reply, the SELECT (no row: return False)
StoreReplySelect(s, text) ==
    /\ listener.pc = "idle"
    /\ OldestPending(queue, s) # {}
    /\ \E i \in OldestPending(queue, s) :
          listener' = [pc |-> "update", sender |-> s, text |-> text, sel |-> i]
    /\ UNCHANGED <<queue, users, now, call, resp, state, push, router, auth_vars>>

\* A variant of the relay's UPDATE that sets the status and not the answer.
UpdateStoreReply_StatusOnly(q, i, text) ==
    IF i \in DOMAIN q
    THEN [q EXCEPT ![i].status = "COMPLETED", ![i].completed_at = now]
    ELSE q

\* UPDATE intent_queue SET answer, status = 'COMPLETED', completed_at WHERE id = ?
UpdateStoreReply(q, i, text) ==
    IF i \in DOMAIN q
    THEN [q EXCEPT ![i].answer = text, ![i].status = "COMPLETED", ![i].completed_at = now]
    ELSE q

\* _store_reply, the UPDATE by id and the commit
StoreReplyUpdate ==
    /\ listener.pc = "update"
    /\ queue' = UpdateStoreReply(queue, listener.sel, listener.text)
    /\ listener' = [pc |-> "idle", sender |-> NULL, text |-> NULL, sel |-> 0]
    /\ UNCHANGED <<users, now, call, resp, state, push, router, auth_vars>>

\* ---------------------------------------------------------------- time
Tick ==
    /\ now < MaxTime
    /\ now' = now + 1
    /\ UNCHANGED <<queue, users, call, listener, resp, state, push, router, auth_vars>>

\* ---------------------------------------------------------------- store failures
\* What the agent gets when an exception leaves collect_user_intent
ExceptionResult == [kind |-> "exception", answer |-> NULL, image |-> NULL, via |-> "none"]

Raise(c) == [call EXCEPT ![c].pc = "failed", ![c].result = ExceptionResult]

\* The INSERT of _collect_via_web raises sqlite3.Error (locked or unreadable
\* database): nothing around it catches, the call ends before the loop.
SubmitFails(c) ==
    /\ call[c].pc = "idle"
    /\ ~Has(c)
    /\ call' = Raise(c)
    /\ UNCHANGED <<queue, users, now, listener, resp, state, push, router, auth_vars>>

\* A pass of the loop in which a store statement (the SELECT, a DELETE, the
\* sweep, the final DELETE) raises sqlite3.Error: the loop has no try/except,
\* the open transaction is rolled back and the exception leaves the call.
BrokerIterFails(c) ==
    /\ call[c].pc = "polling"
    /\ now >= call[c].next
    /\ call' = Raise(c)
    /\ UNCHANGED <<queue, users, now, listener, resp, state, push, router, auth_vars>>

\* ---------------------------------------------------------------- chat-relay push
\* A variant in which a failed push raises out of the call.
AfterPush_Raises(c, ok) == IF ok THEN call ELSE Raise(c)

\* The call after _send_feishu_to_user returned: True or False, the call goes
\* on to _collect_via_web either way (every failure is caught and logged).
AfterPush(c, ok) == call

\* FeishuService.send_message_with_result: a message that was sent is
\* tracked under its request id in _pending_messages and _reply_queues; a
\* failed send returns before that.
SendMessage(c, env_key, ok) ==
    [status |-> IF ok THEN "sent" ELSE "failed", key |-> env_key, tracked |-> ok]

\* FeishuService._pending_messages, which has the keys of _reply_queues:
\* both are written and popped together under the lock.
PendingMessages == {c \in Calls : push[c].tracked}

\* collect_user_intent before _collect_via_web: the key resolves to a user
\* whose feishu_notify_enabled setting is on, and the message is sent (ok) or
\* not (SDK missing, app credentials absent, send error, exception).
\* get_reply and cancel_request, which pop the entry, are called from
\* _collect_via_feishu only, which collect_user_intent does not call.
Push(c, env_key, ok) ==
    /\ call[c].pc = "idle"
    /\ push[c].status = "none"
    /\ get_user_id_from_api_key(env_key) # NULL
    /\ push' = [push EXCEPT ![c] = SendMessage(c, env_key, ok)]
    /\ call' = AfterPush(c, ok)
    /\ UNCHANGED <<queue, users, now, listener, resp, state, router, auth_vars>>

\* ---------------------------------------------------------------- specification
BrokerNext ==
    \/ \E c \in Calls, k \in KeyStrings : Submit(c, k)
    \/ \E c \in Calls : BrokerIter(c)
    \/ Tick

WebNext ==
    \/ \E i \in Ids, r \in Replies : receive_reply(i, r[1], r[2])
    \/ \E i \in Ids : delete_request(i)
    \/ \E i \in Ids : delete_history_item(i)

RelayNext ==
    \/ \E s \in Users, a \in RelayTexts : StoreReplySelect(s, a)
    \/ StoreReplyUpdate

DirectoryNext ==
    \/ \E u \in Users : create_user(u)
    \/ \E u \in Users : disable_user(u)
    \/ \E u \in Users : enable_user(u)
    \/ \E u \in Users : regenerate_api_key(u)

PollNext ==
    \/ \E req \in PollRequests : poll_question(req)
    \/ web_poll_question

RouterNext ==
    \/ \E u \in Users \cup {NULL} : get_pending_requests(u)
    \/ \E i \in RouterIds, u \in Users : create_pending_request(i, u)

\* The user directory and the pending-list endpoints beside the Broker.
NextIso ==
    \/ \E c \in Calls, k \in KeyStrings : Submit(c, k)
    \/ \E c \in Calls : BrokerIter(c)
    \/ \E i \in Ids : delete_request(i)
    \/ DirectoryNext
    \/ PollNext

SpecIso == Init /\ [][NextIso]_vars

\* The MessageRouter on the Broker's database.
NextRouter ==
    \/ \E c \in Calls, k \in KeyStrings : Submit(c, k)
    \/ \E c \in Calls : BrokerIter(c)
    \/ \E i \in Ids : delete_request(i)
    \/ \E u \in Users : create_user(u)
    \/ RouterNext

SpecRouter == Init /\ [][NextRouter]_vars

Next == BrokerNext \/ WebNext

Spec == Init /\ [][Next]_vars

\* The chat relay beside the Broker and the web reply.
NextRelay ==
    \/ BrokerNext
    \/ \E i \in Ids, r \in Replies : receive_reply(i, r[1], r[2])
    \/ RelayNext
    \/ \E u \in Users : create_user(u)

SpecRelay == Init /\ [][NextRelay]_vars

\* The Broker and the web endpoints on a store whose statements may fail;
\* the poll loop and the clock keep running.
FaultNext ==
    \/ \E c \in Calls : SubmitFails(c)
    \/ \E c \in Calls : BrokerIterFails(c)

NextFault == Next \/ FaultNext

SpecFault ==
    /\ Init /\ [][NextFault]_vars
    /\ WF_vars(Tick)
    /\ \A c \in Calls : WF_vars(BrokerIter(c) \/ BrokerIterFails(c))

\* The Broker, the web reply and dismiss, and the history sweep of core.py.
NextSweep ==
    \/ BrokerNext
    \/ \E i \in Ids, r \in Replies : receive_reply(i, r[1], r[2])
    \/ \E i \in Ids : delete_request(i)
    \/ \E d \in Retentions : CleanupOldHistoryRun(d)

SpecSweep == Init /\ [][NextSweep]_vars

\* The MessageRouter's inbound replies and both sweeps on a store that the
\* web endpoints write too.
NextRouterReply ==
    \/ \E i \in RouterIds, u \in Users : create_pending_request(i, u)
    \/ \E u \in Users, a \in RelayTexts : RouterReplySelect(u, a)
    \/ RouterReplyUpdate
    \/ \E i \in Ids, r \in Replies : receive_reply(i, r[1], r[2])
    \/ \E i \in Ids : delete_request(i)
    \/ \E d \in Retentions : cleanup_old_requests(d)
    \/ \E d \in Retentions : CleanupOldHistoryRun(d)
    \/ Tick

SpecRouterReply == Init /\ [][NextRouterReply]_vars

\* collect_user_intent with its notification, the relay's inbound handler
\* and the dismiss endpoint.
NextPush ==
    \/ \E c \in Calls, k \in IssuedKeys, ok \in BOOLEAN : Push(c, k, ok)
    \/ BrokerNext
    \/ RelayNext
    \/ \E i \in Ids : delete_request(i)
    \/ \E u \in Users : create_user(u)

SpecPush == Init /\ [][NextPush]_vars

\* ---------------------------------------------------------------- test hook
\* The text a test's simulator thread supplies for the question of call c
HookAnswer(c) == "Answer for " \o ToString(c)

\* simulate_user_input of the tests: once state.current_question is the
\* question of call c, set state.user_answer and state.answer_event.
simulate_user_input(c) ==
    /\ state.current_question = Question(c)
    /\ ~state.answer_event
    /\ state' = [state EXCEPT !.user_answer = HookAnswer(c), !.answer_event = TRUE]
    /\ UNCHANGED <<queue, users, now, call, listener, resp, push, router, auth_vars>>

\* Broker calls in one process, answered through the store or through the
\* test hook.
NextHook ==
    \/ \E c \in Calls : Submit(c, EmptyKey)
    \/ \E c \in Calls : BrokerIter(c)
    \/ \E c \in Calls : simulate_user_input(c)
    \/ \E i \in Calls, r \in Replies : receive_reply(i, r[1], r[2])
    \/ \E i \in Calls : delete_request(i)
    \/ Tick

SpecHook == Init /\ [][NextHook]_vars

\* ---------------------------------------------------------------- auth.py
\* AdminAuth._hash_password / _verify_hash: pbkdf2 of the password under a
\* random salt stored with the hash; verification recomputes it.
HashPassword(p) == <<"pbkdf2_hmac", p>>
VerifyHash(p, h) == h = HashPassword(p)

\* AdminAuth.is_initialized: a password_hash row exists
is_initialized == admin_config.password_hash # NoHash

\* AdminAuth.verify_password
verify_password(p) ==
    admin_config.password_hash # NoHash /\ VerifyHash(p, admin_config.password_hash)

\* The length checks of AdminAuth.initialize and _validate_password
ValidCredentials(u, p) == Len(u) >= 3 /\ Len(p) >= 8

Finish(a, ret, out) ==
    [initializer EXCEPT ![a].pc = "done", ![a].ret = ret, ![a].out = out]

\* initialize_system up to the database work of AdminAuth.initialize: 400 if
\* is_initialized(), 400 on the ValueError of the length checks.
initialize_system(a, u, p) ==
    /\ initializer[a].pc = "idle"
    /\ initializer' =
          IF is_initialized
          THEN [Finish(a, "none", "400") EXCEPT ![a].username = u, ![a].password = p]
          ELSE IF ~ValidCredentials(u, p)
          THEN [Finish(a, "ValueError", "400") EXCEPT ![a].username = u, ![a].password = p]
          ELSE [initializer EXCEPT ![a].pc = "select", ![a].username = u,
                                   ![a].password = p]
    /\ UNCHANGED <<queue, users, now, call, listener, resp, state, push, router,
                   admin_config, admin_sessions, valid_states, issued, auth_resp>>

\* AdminAuth.initialize, the SELECT of password_hash: a row makes it return
\* False, which initialize_system does not look at before answering success.
InitializeSelect(a) ==
    /\ initializer[a].pc = "select"
    /\ initializer' =
          IF is_initialized
          THEN Finish(a, "False", "success")
          ELSE [initializer EXCEPT ![a].pc = "insert"]
    /\ UNCHANGED <<queue, users, now, call, listener, resp, state, push, router,
                   admin_config, admin_sessions, valid_states, issued, auth_resp>>

\* AdminAuth.initialize, the INSERTs of admin_username and password_hash in
\* one transaction: key is the PRIMARY KEY, an existing row raises
\* IntegrityError and the transaction is rolled back.
InitializeWrite(cfg, u, p) ==
    IF cfg.admin_username # NULL \/ cfg.password_hash # NoHash
    THEN cfg
    ELSE [admin_username |-> u, password_hash |-> HashPassword(p)]

InitializeInsert(a) ==
    /\ initializer[a].pc = "insert"
    /\ admin_config' = InitializeWrite(admin_config, initializer[a].username,
                                       initializer[a].password)
    /\ initializer' =
          IF admin_config.admin_username # NULL \/ admin_config.password_hash # NoHash
          THEN Finish(a, "IntegrityError", "500")
          ELSE Finish(a, "True", "success")
    /\ UNCHANGED <<queue, users, now, call, listener, resp, state, push, router,
                   admin_sessions, valid_states, issued, auth_resp>>

\* Requests to POST /api/system/initialize served by processes that share
\* the database.
NextAdmin ==
    \/ \E a \in Attempts, u \in Usernames, p \in Passwords : initialize_system(a, u, p)
    \/ \E a \in Attempts : InitializeSelect(a)
    \/ \E a \in Attempts : InitializeInsert(a)

SpecAdmin == Init /\ [][NextAdmin]_vars

\* SESSION_EXPIRY, scaled from 24 hours to clock ticks.
SESSION_EXPIRY == 1

\* The tokens a request may present: those create_session hands out and one
\* it never does.
SessionTokens == 1..(MaxSessions + 1)

\* AdminAuth._cleanup_expired_sessions: DELETE ... WHERE expires_at < now
CleanupExpiredSessions(ss) == [t \in {x \in DOMAIN ss : ~(ss[x] < now)} |-> ss[t]]

\* AdminAuth.create_session: a fresh secrets.token_hex(32) token
create_session ==
    /\ issued.sessions < MaxSessions
    /\ LET token == issued.sessions + 1
           ss == [t \in (DOMAIN admin_sessions) \cup {token} |->
                    IF t = token THEN now + SESSION_EXPIRY ELSE admin_sessions[t]]
       IN /\ admin_sessions' = CleanupExpiredSessions(ss)
          /\ issued' = [issued EXCEPT !.sessions = token]
          /\ auth_resp' = [op |-> "create_session", arg |-> token, ok |-> TRUE]
    /\ UNCHANGED <<queue, users, now, call, listener, resp, state, push, router,
                   admin_config, initializer, valid_states>>

\* A variant of the test of validate_session that does not look at expires_at.
SessionValid_NoExpiry(ss, t) == t \in DOMAIN ss

\* validate_session: a row exists and not (now > expires_at)
SessionValid(ss, t) == t \in DOMAIN ss /\ ~(now > ss[t])

\* AdminAuth.validate_session: an expired row is deleted
validate_session(t) ==
    /\ auth_resp' = [op |-> "validate_session", arg |-> t, ok |-> SessionValid(admin_sessions, t)]
    /\ admin_sessions' =
          IF t \in DOMAIN admin_sessions /\ ~SessionValid(admin_sessions, t)
          THEN [x \in (DOMAIN admin_sessions) \ {t} |-> admin_sessions[x]]
          ELSE admin_sessions
    /\ UNCHANGED <<queue, users, now, call, listener, resp, state, push, router,
                   admin_config, initializer, valid_states, issued>>

\* AdminAuth.invalidate_session (logout): DELETE ... WHERE token = ?
invalidate_session(t) ==
    /\ admin_sessions' = [x \in (DOMAIN admin_sessions) \ {t} |-> admin_sessions[x]]
    /\ UNCHANGED <<queue, users, now, call, listener, resp, state, push, router,
                   admin_config, initializer, valid_states, issued, auth_resp>>

\* Admin sessions: login, checks, logout and the clock.
NextSession ==
    \/ create_session
    \/ \E t \in SessionTokens : validate_session(t)
    \/ \E t \in SessionTokens : invalidate_session(t)
    \/ Tick

SpecSession == Init /\ [][NextSession]_vars

\* ---------------------------------------------------------------- oauth.py
\* STATE_EXPIRY, scaled from 10 minutes to clock ticks.
STATE_EXPIRY == 1

\* The state values a callback may carry: those _generate_state hands out
\* and one it never does.
StateValues == 1..(MaxStates + 1)

\* FeishuOAuth._cleanup_expired_states: drop the states with now > expires_at
CleanupExpiredStates(vs) == [x \in {y \in DOMAIN vs : ~(now > vs[y])} |-> vs[x]]

\* FeishuOAuth.get_authorize_url / _generate_state: a fresh
\* secrets.token_hex(16) state, then the cleanup
get_authorize_url ==
    /\ issued.states < MaxStates
    /\ LET st == issued.states + 1
           vs == [x \in (DOMAIN valid_states) \cup {st} |->
                    IF x = st THEN now + STATE_EXPIRY ELSE valid_states[x]]
       IN /\ valid_states' = CleanupExpiredStates(vs)
          /\ issued' = [issued EXCEPT !.states = st]
          /\ auth_resp' = [op |-> "get_authorize_url", arg |-> st, ok |-> TRUE]
    /\ UNCHANGED <<queue, users, now, call, listener, resp, state, push, router,
                   admin_config, initializer, admin_sessions>>

\* A variant of validate_state that leaves the state in the dict.
ConsumeState_Keep(vs, st) == vs

\* validate_state: del self._valid_states[state]
ConsumeState(vs, st) == [x \in (DOMAIN vs) \ {st} |-> vs[x]]

\* FeishuOAuth.validate_state: cleanup, membership test, one-time removal
validate_state(st) ==
    /\ LET vs == CleanupExpiredStates(valid_states) IN
          IF st \notin DOMAIN vs
          THEN /\ valid_states' = vs
               /\ auth_resp' = [op |-> "validate_state", arg |-> st, ok |-> FALSE]
          ELSE /\ valid_states' = ConsumeState(vs, st)
               /\ auth_resp' = [op |-> "validate_state", arg |-> st, ok |-> TRUE]
    /\ UNCHANGED <<queue, users, now, call, listener, resp, state, push, router,
                   admin_config, initializer, admin_sessions, issued>>

\* OAuth logins: the authorize redirect, the callback's check and the clock.
NextOAuth ==
    \/ get_authorize_url
    \/ \E st \in StateValues : validate_state(st)
    \/ Tick

SpecOAuth == Init /\ [][NextOAuth]_vars

\* ---------------------------------------------------------------- duplicate id
\* The INSERT of _collect_via_web on an id the table already holds: sqlite3
\* raises IntegrityError (id is the PRIMARY KEY), nothing around the INSERT
\* catches it, the call ends before the state reset and the loop.
SubmitConflict(c) ==
    /\ call[c].pc = "idle"
    /\ Has(c)
    /\ call' = Raise(c)
    /\ UNCHANGED <<queue, users, now, listener, resp, state, push, router, auth_vars>>

\* Rows created by the Broker and by callers of the MessageRouter, which
\* name the request id themselves, in one table.
NextConflict ==
    \/ \E c \in Calls, k \in {EmptyKey} : Submit(c, k)
    \/ \E c \in Calls : SubmitConflict(c)
    \/ \E c \in Calls : BrokerIter(c)
    \/ \E i \in Ids, u \in Users : create_pending_request(i, u)
    \/ \E i \in Ids : delete_request(i)

SpecConflict == Init /\ [][NextConflict]_vars

\* ---------------------------------------------------------------- fair sweep
\* The Broker, the web channel and the sweep with the scheduling the code
\* gives them: the clock advances, every poll loop keeps running, and a
\* Broker process with the default retention keeps sweeping.
SpecDismiss ==
    /\ Init /\ [][NextSweep]_vars
    /\ WF_vars(Tick)
    /\ \A c \in Calls : WF_vars(BrokerIter(c))
    /\ WF_vars(CleanupOldHistoryRun(HISTORY_RETENTION_DAYS))

\* Every writer of intent_queue on one table: the Broker, the web reply and
\* dismiss, the relay's inbound handler and the sweep.
NextFrame ==
    \/ \E c \in Calls, k \in {EmptyKey, GenerateApiKey("ou_A", 0)} : Submit(c, k)
    \/ \E c \in Calls : BrokerIter(c)
    \/ Tick
    \/ \E i \in Calls : receive_reply(i, "no", "data:image/png;base64,AA")
    \/ \E i \in Calls : delete_request(i)
    \/ StoreReplySelect("ou_A", "yes")
    \/ StoreReplyUpdate
    \/ CleanupOldHistoryRun(HISTORY_RETENTION_DAYS)
    \/ create_user("ou_A")

SpecFrame == Init /\ [][NextFrame]_vars

\* ---------------------------------------------------------------- reply requests
\* The credentials a POST /api/reply request may carry
ReplyHeaders == {NoHeader} \cup {Bearer(GenerateApiKey(u, 0)) : u \in Users}

\* A POST /api/reply request with Authorization header h: receive_reply has
\* no header parameter and no dependency, the UPDATE is by id alone.
post_reply(h, i, a, img) ==
    /\ queue' = UpdateReply(queue, i, a, img)
    /\ resp' = [op |-> "reply", req |-> [authorization |-> h, api_key |-> NoKey],
                open_id |-> NULL, out |-> {i}]
    /\ UNCHANGED <<users, now, call, listener, state, push, router, auth_vars>>

\* Owned and public requests answered by callers with and without credential.
NextReplyAuth ==
    \/ \E c \in Calls, k \in {EmptyKey, GenerateApiKey("ou_A", 0)} : Submit(c, k)
    \/ \E c \in Calls : BrokerIter(c)
    \/ Tick
    \/ \E u \in Users : create_user(u)
    \/ \E h \in ReplyHeaders, i \in Calls : post_reply(h, i, "yes", NULL)

SpecReplyAuth == Init /\ [][NextReplyAuth]_vars

\* ---------------------------------------------------------------- properties
\* A variant of the history query with no WHERE clause.
History_AnyStatus(q) == DOMAIN q

\* GET /api/history, the WHERE clause: the COMPLETED rows
History(q) == {i \in DOMAIN q : q[i].status = "COMPLETED"}

\* LIMIT 50 of the history query, scaled to the rows of the model.
HISTORY_LIMIT == 2

\* The lists SELECT ... WHERE status = 'COMPLETED' ORDER BY completed_at DESC
\* LIMIT n may return: rows of equal completed_at come in any order.
HistoryListings(q) ==
    LET C == History(q)
        n == IF Cardinality(C) < HISTORY_LIMIT THEN Cardinality(C) ELSE HISTORY_LIMIT
    IN {s \in [1..n -> C] :
          /\ \A k, l \in 1..n : k < l =>
                 /\ s[k] # s[l]
                 /\ q[s[k]].completed_at >= q[s[l]].completed_at
          /\ \A i \in C \ {s[k] : k \in 1..n} :
                 \A k \in 1..n : q[i].completed_at <= q[s[k]].completed_at}

\* GET /api/history of web.py and web_multi_tenant.py
get_history ==
    /\ \E s \in HistoryListings(queue) :
          resp' = [op |-> "history", req |-> NoRequest, open_id |-> NULL, out |-> s]
    /\ UNCHANGED <<queue, users, now, call, listener, state, push, router, auth_vars>>

\* The history endpoint over rows that the web channel completes and
\* dismisses (the rows are created through the router, under any id).
NextHistory ==
    \/ \E i \in Ids : create_pending_request(i, "ou_A")
    \/ \E i \in Ids : receive_reply(i, "yes", NULL)
    \/ \E i \in Calls : delete_request(i)
    \/ Tick
    \/ get_history

SpecHistory == Init /\ [][NextHistory]_vars

\* The owner of a row: the column the Broker writes, else the router's.
Owner(r) == IF r.user_id # NULL THEN r.user_id ELSE r.open_id

\* A step of call c that returns to the agent
Returns(c) == call[c].pc = "polling" /\ call'[c].pc = "done"

\* A step of call c that read the row and went to sleep
ReadsAndSleeps(c) ==
    call[c].pc = "polling" /\ call'[c].pc = "polling" /\ call'[c].next # call[c].next

\* C1: when the relay's UPDATE lands on a row that a web reply has completed
\* since the relay's SELECT, it is a no-op: answer, image and completed_at
\* stay those of the first write.
C1_RaceSecondWriteNoOp ==
    [][(/\ listener.pc = "update" /\ listener'.pc = "idle"
        /\ Has(listener.sel)
        /\ queue[listener.sel].status = "COMPLETED")
          => queue'[listener.sel] = queue[listener.sel]]_vars

\* C2: a reply on a row that is already COMPLETED changes neither its answer,
\* its image nor its completed_at.
C2_FirstAnswerStays ==
    [][\A i \in (DOMAIN queue) \cap (DOMAIN queue') :
          queue[i].status = "COMPLETED"
            => /\ queue'[i].answer = queue[i].answer
               /\ queue'[i].image = queue[i].image
               /\ queue'[i].completed_at = queue[i].completed_at]_vars

\* C3: a PENDING row owned by user A is returned by no pending-list endpoint
\* to a caller resolving to another user or to a caller without credential,
\* and a caller resolving to A gets exactly A's PENDING rows.
C3_OwnedRowsIsolated ==
    /\ \A k \in KeyStrings :
          LET u == get_user_by_api_key(k)
              out == PollQuestion([authorization |-> Bearer(k), api_key |-> NoKey])
          IN  u # NULL => out = PendingOf(queue, u)
    /\ \A i \in DOMAIN queue :
          (queue[i].status = "PENDING" /\ queue[i].user_id # NULL)
            => /\ i \notin PollQuestion(NoRequest)
               /\ i \notin WebPollQuestion

\* the multi-tenant endpoint alone keeps the rule of C3
MultiTenantPollIsolated ==
    /\ \A k \in KeyStrings :
          LET u == get_user_by_api_key(k)
              out == PollQuestion([authorization |-> Bearer(k), api_key |-> NoKey])
          IN  u # NULL => out = PendingOf(queue, u)
    /\ \A i \in DOMAIN queue :
          (queue[i].status = "PENDING" /\ queue[i].user_id # NULL)
            => i \notin PollQuestion(NoRequest)

\* C4: a public row is never listed for a caller authenticated as an active
\* user, and a pending-list call without owner or credential lists only
\* PENDING rows whose owner is absent.
C4_PublicScoping ==
    /\ \A k \in KeyStrings :
          get_user_by_api_key(k) # NULL
            => \A i \in PollQuestion([authorization |-> Bearer(k), api_key |-> NoKey]) :
                  queue[i].user_id # NULL
    /\ \A u \in Users : \A i \in GetPendingRequests(u) : Owner(queue[i]) # NULL
    /\ \A i \in PollQuestion(NoRequest) :
          queue[i].status = "PENDING" /\ queue[i].user_id = NULL
    /\ \A i \in GetPendingRequests(NULL) :
          queue[i].status = "PENDING" /\ Owner(queue[i]) = NULL

\* C5: a poll whose Authorization header is present but does not carry the
\* key of an active user (unknown, disabled or replaced key, empty value, no
\* Bearer prefix) gets the empty list.
C5_FailClosed ==
    \A h \in Headers :
        (h.present /\ ~(h.scheme = "Bearer " /\ get_user_by_api_key(h.rest) # NULL))
          => PollQuestion([authorization |-> h, api_key |-> NoKey]) = {}

\* C6: a poll carrying its credential as the api_key query parameter is
\* scoped by it: exactly the user's PENDING rows for a valid key, the empty
\* list for an invalid one.
C6_QueryKeyScoped ==
    \A req \in PollRequests :
        req.api_key # NoKey
          => LET u == get_user_by_api_key(req.api_key) IN
             PollQuestion(req) = IF u # NULL THEN PendingOf(queue, u) ELSE {}

\* C7: a call that returns while its row is COMPLETED by a reply written
\* before the timeout elapsed returns that reply's answer.
C7_CompletedReturnsAnswer ==
    [][\A c \in Calls :
          (/\ Returns(c) /\ Has(c)
           /\ queue[c].status = "COMPLETED"
           /\ queue[c].completed_at - call[c].start < DEFAULT_TIMEOUT)
            => /\ call'[c].result.kind = "answer"
               /\ call'[c].result.answer = queue[c].answer]_vars

\* C8: once a row is DISMISSED it never shows in the history listing, and
\* the Broker's next read of it returns the dismissed result and deletes it.
C8_DismissedNeverHistory ==
    [][\A c \in Calls :
          (Has(c) /\ queue[c].status = "DISMISSED")
            => /\ c \notin History(queue')
               /\ (Returns(c) /\ now - call[c].start < DEFAULT_TIMEOUT)
                     => (call'[c].result.kind = "dismissed" /\ c \notin DOMAIN queue')]_vars

\* C9: a call whose row is still PENDING when it returns (no reply, by the
\* store or the test hook, and no dismissal) returns the timeout result, not
\* before the timeout has elapsed, and after a timeout result the row is in
\* neither the store nor the history listing.
C9_TimeoutDeletesRow ==
    /\ [](\A c \in Calls :
            (call[c].pc = "done" /\ call[c].result.kind = "timeout")
              => (~Has(c) /\ c \notin History(queue)))
    /\ [][\A c \in Calls :
            (Returns(c) /\ Has(c) /\ queue[c].status = "PENDING" /\ ~state.answer_event)
              => /\ call'[c].result.kind = "timeout"
                 /\ now - call[c].start >= DEFAULT_TIMEOUT
                 /\ c \notin DOMAIN queue']_vars

\* C9 witness: a call that was never answered has returned the timeout result.
C9_Witness ==
    \E c \in Calls :
        /\ call[c].pc = "done" /\ call[c].result.kind = "timeout"
        /\ now = call[c].start + DEFAULT_TIMEOUT
        /\ ~Has(c)

\* C10: a call returns once, with one of answer, dismissed, timeout; answer
\* only from a COMPLETED row, dismissed only from a DISMISSED row, and a read
\* of a row in a terminal state always returns (so timeout follows only
\* reads of a PENDING or absent row).
C10_OutcomeMatchesRow ==
    [][\A c \in Calls :
          /\ call[c].pc = "done" => call'[c] = call[c]
          /\ Returns(c) =>
                /\ call'[c].result.kind \in {"answer", "dismissed", "timeout"}
                /\ call'[c].result.kind = "answer"
                      => Has(c) /\ queue[c].status = "COMPLETED"
                /\ call'[c].result.kind = "dismissed"
                      => Has(c) /\ queue[c].status = "DISMISSED"
          /\ ReadsAndSleeps(c) => (~Has(c) \/ queue[c].status = "PENDING")]_vars

\* A call that entered the loop early enough for the clock's bound to reach
\* its timeout
InWindow(c) == call[c].pc = "polling" /\ call[c].start + DEFAULT_TIMEOUT <= MaxTime

\* C11: every Broker call eventually returns a result to the agent, whatever
\* replies, dismissals, deletions or store failures occur meanwhile.
C11_CallEventuallyReturns ==
    \A c \in Calls : InWindow(c) ~> (call[c].pc = "done")

\* no call stays in the loop for ever: it returns or it raises
BrokerCallEnds ==
    \A c \in Calls : InWindow(c) ~> (call[c].pc \in {"done", "failed"})

\* C12: a store failure during the polling loop does not abort the call: no
\* exception leaves the Broker, the call stays in the loop or returns.
C12_StoreFailureIsTransient ==
    [][\A c \in Calls :
          call[c].pc = "polling"
            => /\ call'[c].pc \in {"polling", "done"}
               /\ call'[c].result.kind # "exception"]_vars

\* C13: a reply for a row that is DISMISSED leaves it DISMISSED, and the
\* Broker's read of a DISMISSED row returns the dismissed result.
C13_DismissedNotResurrected ==
    [][\A i \in (DOMAIN queue) \cap (DOMAIN queue') :
          queue[i].status = "DISMISSED"
            => /\ queue'[i].status = "DISMISSED"
               /\ queue'[i].answer = queue[i].answer]_vars

\* C14: the status of a row changes only from PENDING, to COMPLETED or to
\* DISMISSED; a dismiss of a COMPLETED row leaves it COMPLETED and in history.
C14_StatusChangesOnce ==
    [][\A i \in (DOMAIN queue) \cap (DOMAIN queue') :
          queue'[i].status # queue[i].status
            => /\ queue[i].status = "PENDING"
               /\ queue'[i].status \in {"COMPLETED", "DISMISSED"}]_vars

\* A COMPLETED row older than the retention window of days
Expired(r, days) ==
    r.status = "COMPLETED" /\ r.completed_at # NoTime
        /\ r.completed_at < now - days * DayTicks

\* A step that runs core.cleanup_old_history: the stand-alone run, or the
\* Broker returning an answer read from the store
SweepStep ==
    \/ \E d \in Retentions : CleanupOldHistoryRun(d)
    \/ \E c \in Calls : Returns(c) /\ call'[c].result.via = "store"

\* C15: no step removes a COMPLETED row that is inside the retention window
\* (the Broker's timeout cleanup of its own call included), and after a sweep
\* no COMPLETED row older than the window is left.
C15_HistoryKeptInsideWindow ==
    [][/\ \A i \in DOMAIN queue :
            (queue[i].status = "COMPLETED"
               /\ ~Expired(queue[i], HISTORY_RETENTION_DAYS))
              => i \in DOMAIN queue'
       /\ (\E c \in Calls : Returns(c) /\ call'[c].result.via = "store")
            => \A i \in DOMAIN queue' : ~Expired(queue'[i], HISTORY_RETENTION_DAYS)]_vars

\* after a sweep by the Broker no expired COMPLETED row is left
SweepRemovesExpired ==
    [][(\E c \in Calls : Returns(c) /\ call'[c].result.via = "store")
          => \A i \in DOMAIN queue' : ~Expired(queue'[i], HISTORY_RETENTION_DAYS)]_vars

\* C16: a sweep run with days <= 0 removes nothing, for
\* core.cleanup_old_history and for MessageRouter.cleanup_old_requests.
C16_NonPositiveDaysNoSweep ==
    [][\A d \in Retentions :
          (d <= 0 /\ (CleanupOldHistoryRun(d) \/ cleanup_old_requests(d)))
            => queue' = queue]_vars

\* the guard of core.cleanup_old_history alone
CoreSweepDisabledByNonPositiveDays ==
    [][\A d \in Retentions :
          (d <= 0 /\ CleanupOldHistoryRun(d)) => queue' = queue]_vars

\* C17: a sweep removes only COMPLETED rows older than the retention window
\* and changes no other row; the row of a call that is still inside its
\* timeout is never removed by it.
C17_SweepFrame ==
    [][SweepStep =>
          /\ \A i \in DOMAIN queue :
                /\ i \notin DOMAIN queue'
                     => Expired(queue[i], HISTORY_RETENTION_DAYS)
                /\ i \in DOMAIN queue' => queue'[i] = queue[i]
          /\ DOMAIN queue' \subseteq DOMAIN queue
          /\ \A c \in Calls :
                (call[c].pc = "polling" /\ Has(c)
                   /\ now - call[c].start < DEFAULT_TIMEOUT)
                  => c \in DOMAIN queue']_vars

\* C17 witness: a sweep has removed the expired row of an answered call and
\* left a younger COMPLETED row and a row that is not COMPLETED.
C17_Witness ==
    /\ \E c \in Calls :
          call[c].pc = "done" /\ call[c].result.via = "store" /\ ~Has(c)
    /\ \E i \in DOMAIN queue : queue[i].status = "COMPLETED"

\* The rows a step changes or removes
Changed == {i \in DOMAIN queue : i \notin DOMAIN queue' \/ queue'[i] # queue[i]}

\* The relay's write of an inbound message: the UPDATE of
\* FeishuWSListener._store_reply
RelayWrite == listener.pc = "update" /\ listener'.pc = "idle"

\* C18: an inbound relay message from sender S changes at most one row, and
\* the row it completes is, at the moment of the write, PENDING, owned by S
\* and the oldest such row; no row of another owner and no public row changes.
C18_RelayCompletesOldestPending ==
    [][RelayWrite =>
          /\ Changed \subseteq {listener.sel}
          /\ \A i \in Changed :
                /\ queue[i].user_id = listener.sender
                /\ queue[i].status = "PENDING"
                /\ i \in OldestPending(queue, listener.sender)
                /\ queue'[i].status = "COMPLETED"]_vars

\* whatever the interleaving, the relay's write changes at most one row and
\* only a row whose owner is the sender
RelayTouchesOnlySenderRows ==
    [][RelayWrite =>
          /\ Cardinality(Changed) <= 1
          /\ \A i \in Changed : queue[i].user_id = listener.sender]_vars

\* the row the relay selects is the oldest PENDING row of the sender
RelaySelectsOldestOwn ==
    [][(listener.pc = "idle" /\ listener'.pc = "update")
          => /\ queue[listener'.sel].status = "PENDING"
             /\ queue[listener'.sel].user_id = listener'.sender
             /\ \A j \in DOMAIN queue :
                   (queue[j].status = "PENDING" /\ queue[j].user_id = listener'.sender)
                     => queue[listener'.sel].created_at <= queue[j].created_at]_vars

\* C19: a push that fails raises nothing and changes no row; the call goes
\* on to insert its PENDING row and to poll.
C19_PushFailureNotFatal ==
    [][\A c \in Calls :
          /\ (push'[c] # push[c] /\ push'[c].status = "failed")
                => (queue' = queue /\ call' = call)
          /\ push[c].status = "failed" => call'[c].pc # "failed"
          /\ (push[c].status = "failed" /\ call[c].pc = "idle" /\ call'[c] # call[c])
                => /\ call'[c].pc = "polling"
                   /\ c \in DOMAIN queue'
                   /\ queue'[c].status = "PENDING"]_vars

\* C19 witness: a call whose push failed has returned an answer.
C19_Witness ==
    \E c \in Calls :
        /\ push[c].status = "failed"
        /\ call[c].pc = "done"
        /\ call[c].result.kind = "answer"

\* C20: when the push of a call is attempted its PENDING row is already in
\* the store.
C20_InsertBeforePush ==
    [][\A c \in Calls :
          push'[c] # push[c] => (Has(c) /\ queue[c].status = "PENDING")]_vars

\* A step that creates a request under an id the store already holds
CreatesExisting(i) ==
    /\ Has(i)
    /\ \/ \E u \in Users : create_pending_request(i, u)
       \/ i \in Calls /\ call[i].pc = "idle" /\ call'[i].pc # "idle"

\* C21: creating a request under an id that already exists fails with an
\* outcome that is returned, not raised, and leaves the existing row as it
\* was; the store holds at most one row per id.
C21_DuplicateIdConflictReturned ==
    [][\A i \in Ids :
          CreatesExisting(i)
             => /\ queue' = queue
                /\ i \in Calls => call'[i].pc # "failed"]_vars

\* The router's half of C21: create_pending_request on an existing id
\* returns False and writes nothing.
RouterDuplicateIdRejected ==
    [][\A i \in Ids, u \in Users :
          (Has(i) /\ create_pending_request(i, u)) => queue' = queue]_vars

\* A reply or a dismiss of the web channel addressed to id i
RepliesOrDismisses(i) ==
    \/ \E r \in Replies : receive_reply(i, r[1], r[2])
    \/ delete_request(i)

\* C22: a reply or a dismiss addressed to an id the store does not hold
\* (never created, or deleted after a timeout or a dismissal) writes nothing:
\* no row is created, no other row changes, and the id is neither in the
\* pending list nor in the history afterwards.
C22_MissingIdNoOp ==
    [][\A i \in Ids :
          (~Has(i) /\ RepliesOrDismisses(i))
             => /\ queue' = queue
                /\ i \notin DOMAIN queue'
                /\ i \notin WebPollQuestion'
                /\ i \notin History(queue')]_vars

\* A call has timed out and its row is gone, another request is PENDING,
\* and a row never created is absent too: the state in which, and after
\* which, a late reply to the deleted id is served.
C22_Witness ==
    \E c \in Calls, j \in Calls :
        /\ call[c].pc = "done" /\ call[c].result.kind = "timeout"
        /\ ~Has(c)
        /\ Has(j) /\ queue[j].status = "PENDING"
        /\ \E i \in RouterIds : ~Has(i)

\* A step in which GET /api/history answers
HistoryAnswers == resp' # resp /\ resp'.op = "history"

\* C23: the history listing holds only COMPLETED rows, ordered by
\* completed_at newest first, and at most the limit of them; a PENDING or a
\* DISMISSED row is never in it.
C23_HistoryListing ==
    [][HistoryAnswers =>
          LET s == resp'.out IN
          /\ Len(s) <= HISTORY_LIMIT
          /\ \A k \in 1..Len(s) :
                /\ Has(s[k])
                /\ queue[s[k]].status = "COMPLETED"
                /\ queue[s[k]].status \notin {"PENDING", "DISMISSED"}
          /\ \A k, l \in 1..Len(s) :
                k < l => queue[s[k]].completed_at >= queue[s[l]].completed_at]_vars

\* The listing was cut at the limit: more rows are COMPLETED than it holds,
\* its rows were completed at different times, and the table has a row that
\* is not COMPLETED.
C23_Witness ==
    /\ resp.op = "history"
    /\ Len(resp.out) = HISTORY_LIMIT
    /\ Cardinality(History(queue)) > HISTORY_LIMIT
    /\ \A k \in 1..Len(resp.out) : resp.out[k] \in History(queue)
    /\ queue[resp.out[1]].completed_at > queue[resp.out[HISTORY_LIMIT]].completed_at
    /\ \E i \in DOMAIN queue : queue[i].status \in {"PENDING", "DISMISSED"}

ResolvesTo(u) == get_user_by_api_key(users[u].api_key)
PollWithKeyOf(u) == PollQuestion([authorization |-> Bearer(users[u].api_key), api_key |-> NoKey])

\* C25: disabling a user takes effect on the very next resolution of the
\* user's credential, which then resolves to no user for the poll and for
\* the Broker, and stays so while the user is disabled; the user's rows are
\* left as they were; re-enabling makes the same credential resolve to the
\* user again.
C25_DisableTakesEffect ==
    /\ [](\A u \in DOMAIN users :
            /\ ~users[u].is_active =>
                  /\ ResolvesTo(u) = NULL
                  /\ get_user_id_from_api_key(users[u].api_key) = NULL
                  /\ PollWithKeyOf(u) = {}
            /\ users[u].is_active => ResolvesTo(u) = u)
    /\ [][\A u \in DOMAIN users :
            /\ disable_user(u) =>
                  /\ ResolvesTo(u)' = NULL
                  /\ PollWithKeyOf(u)' = {}
                  /\ queue' = queue
                  /\ users'[u].api_key = users[u].api_key
            /\ enable_user(u) =>
                  /\ ResolvesTo(u)' = u
                  /\ PollWithKeyOf(u)' = PendingOf(queue, u)
                  /\ queue' = queue
                  /\ users'[u].api_key = users[u].api_key]_vars

\* A disabled user owns a PENDING row, and a poll with the user's
\* credential has been answered with nothing.
C25_Witness ==
    \E u \in DOMAIN users :
        /\ ~users[u].is_active
        /\ PendingOf(queue, u) # {}
        /\ resp.op = "poll"
        /\ resp.req.authorization = Bearer(users[u].api_key)
        /\ resp.out = {}

\* The users a credential string resolves to
UsersOfKey(k) == {u \in DOMAIN users : users[u].api_key = k /\ users[u].is_active}

\* C26: after a user's credential is regenerated the old credential resolves
\* to no user and the new one resolves to that same user (an active one; a
\* disabled user's credential resolves to no user); at every time a
\* credential string resolves to at most one user.
C26_RegenerateReplacesKey ==
    /\ [](\A k \in KeyStrings :
            /\ Cardinality(UsersOfKey(k)) <= 1
            /\ Cardinality({u \in DOMAIN users : users[u].api_key = k}) <= 1)
    /\ [][\A u \in DOMAIN users, old \in KeyStrings :
            (regenerate_api_key(u) /\ old = users[u].api_key)
               => /\ users'[u].api_key # old
                  /\ get_user_by_api_key(old)' = NULL
                  /\ users[u].is_active => ResolvesTo(u)' = u
                  /\ users'[u].is_active = users[u].is_active
                  /\ queue' = queue]_vars

\* An active user holds a regenerated credential, owns a PENDING row, and a
\* poll with the old credential has been answered with nothing.
C26_Witness ==
    \E u \in DOMAIN users :
        /\ users[u].is_active
        /\ users[u].api_key = GenerateApiKey(u, 1)
        /\ PendingOf(queue, u) # {}
        /\ resp.op = "poll"
        /\ resp.req.authorization = Bearer(GenerateApiKey(u, 0))
        /\ resp.out = {}

\* C27: with several Broker calls in flight, each call returns only the
\* answer written for its own request id: an answer supplied for one request,
\* through the store or through the test hook, is never returned by another
\* call, and is returned by at most one call.
C27_AnswerReachesOwnCall ==
    [][\A c \in Calls :
          (Returns(c) /\ call'[c].result.kind = "answer")
             => /\ call'[c].result.via = "store"
                     => Has(c) /\ call'[c].result.answer = queue[c].answer
                /\ call'[c].result.via = "hook"
                     => /\ call'[c].result.answer = HookAnswer(c)
                        /\ \A d \in Calls \ {c} :
                              ~(/\ call[d].pc = "done"
                                /\ call[d].result.via = "hook"
                                /\ call[d].result.answer = call'[c].result.answer)]_vars

\* The store's half of C27: a call that returns a stored answer returns the
\* answer of the row with its own id.
StoreAnswerReachesOwnCall ==
    [][\A c \in Calls :
          (Returns(c) /\ call'[c].result.via = "store")
             => Has(c) /\ call'[c].result.answer = queue[c].answer]_vars

\* A step in which the initialize request a is answered
InitAnswered(a) == initializer[a].pc # "done" /\ initializer'[a].pc = "done"

\* C28: once the admin system is initialized, every later initialize attempt
\* is rejected and leaves the stored admin username and password as they
\* were: the original password still verifies and the new one does not.
C28_InitializeOnce ==
    [][\A a \in Attempts :
          (is_initialized /\ InitAnswered(a))
             => /\ initializer'[a].out # "success"
                /\ admin_config' = admin_config
                /\ \A p \in Passwords : verify_password(p)' = verify_password(p)]_vars

\* The stored half of C28: no step changes the admin name or password of
\* an initialized system.
InitializedCredentialsKept ==
    [][is_initialized => admin_config' = admin_config]_vars

\* C29: an admin session token validates only between its creation and the
\* earlier of its invalidation and its expiry: a token never issued,
\* invalidated or expired does not validate, a token that is gone never
\* comes back, and an expired token is removed by the check that finds it.
C29_SessionLifetime ==
    /\ [](\A t \in DOMAIN admin_sessions :
            t <= issued.sessions /\ admin_sessions[t] <= MaxTime + SESSION_EXPIRY)
    /\ [][\A t \in SessionTokens :
            /\ (t \notin DOMAIN admin_sessions /\ t <= issued.sessions)
                  => t \notin DOMAIN admin_sessions'
            /\ invalidate_session(t) => t \notin DOMAIN admin_sessions'
            /\ validate_session(t) =>
                  /\ auth_resp'.ok =>
                        /\ t \in DOMAIN admin_sessions /\ t <= issued.sessions
                        /\ now <= admin_sessions[t]
                        /\ admin_sessions' = admin_sessions
                  /\ (t \in DOMAIN admin_sessions /\ now > admin_sessions[t])
                        => ~auth_resp'.ok /\ t \notin DOMAIN admin_sessions'
                  /\ (t \in DOMAIN admin_sessions /\ now <= admin_sessions[t])
                        => auth_resp'.ok]_vars

\* A check has refused an issued token and the row is gone, while a later
\* token is still valid.
C29_Witness ==
    /\ auth_resp.op = "validate_session" /\ ~auth_resp.ok
    /\ auth_resp.arg <= issued.sessions
    /\ auth_resp.arg \notin DOMAIN admin_sessions
    /\ \E t \in DOMAIN admin_sessions : now <= admin_sessions[t]

\* C30: an OAuth state value is single-use: validate_state returns true only
\* for a state that was issued, has not expired and has not validated
\* before, and removes it, so that it returns true at most once per state;
\* a state that is gone never comes back.
C30_StateSingleUse ==
    /\ [](\A st \in DOMAIN valid_states : st <= issued.states)
    /\ [][\A st \in StateValues :
            /\ (st \notin DOMAIN valid_states /\ st <= issued.states)
                  => st \notin DOMAIN valid_states'
            /\ validate_state(st) =>
                  /\ st \notin DOMAIN valid_states'
                  /\ auth_resp'.ok =>
                        /\ st \in DOMAIN valid_states /\ st <= issued.states
                        /\ now <= valid_states[st]
                  /\ (st \notin DOMAIN valid_states \/ st > issued.states)
                        => ~auth_resp'.ok
                  /\ (st \in DOMAIN valid_states /\ now > valid_states[st])
                        => ~auth_resp'.ok]_vars

\* A state has validated once and a second validation of it has been
\* refused, while another issued state still waits for its callback.
C30_Witness ==
    /\ auth_resp.op = "validate_state" /\ ~auth_resp.ok
    /\ auth_resp.arg <= issued.states
    /\ auth_resp.arg \notin DOMAIN valid_states
    /\ \E st \in DOMAIN valid_states : now <= valid_states[st]

\* C31: every row that becomes DISMISSED is eventually deleted from the
\* store, whatever its status was when dismiss was called and whether or not
\* its Broker call is still in flight.
C31_DismissedEventuallyDeleted ==
    \A i \in Ids : []<>(~Has(i) \/ queue[i].status # "DISMISSED")

\* The in-flight half of C31: a row dismissed while its call is polling is
\* deleted or written again.
DismissedInFlightLeaves ==
    \A c \in Calls :
        (Has(c) /\ queue[c].status = "DISMISSED" /\ call[c].pc = "polling"
            /\ call[c].next <= MaxTime)
            ~> (~Has(c) \/ queue[c].status # "DISMISSED")

\* The state half of C32: a PENDING row has neither answer nor completed_at,
\* a COMPLETED row has its completed_at.
CompletedAtFollowsStatus ==
    \A i \in DOMAIN queue :
        /\ queue[i].status = "PENDING"
              => queue[i].answer = NULL /\ queue[i].completed_at = NoTime
        /\ queue[i].status = "COMPLETED" => queue[i].completed_at # NoTime

\* C32: completed_at is set exactly by the transition to COMPLETED and not
\* changed afterwards: a PENDING row has no answer and no completed_at, a
\* COMPLETED row has completed_at set, and a later reply does not move the
\* completed_at of a COMPLETED row.
C32_CompletedAtSetOnce ==
    /\ []CompletedAtFollowsStatus
    /\ [][\A i \in DOMAIN queue :
            (queue[i].status = "COMPLETED" /\ i \in DOMAIN queue')
               => queue'[i].completed_at = queue[i].completed_at]_vars

\* C33: no operation after creation changes a row's id, question or owner:
\* reply, chat-relay reply, dismiss, sweep and the Broker's own steps leave
\* these fields of every surviving row as they were at insertion.
C33_IdentityFieldsImmutable ==
    /\ [](\A i \in DOMAIN queue : queue[i].question = Question(i))
    /\ [][\A i \in (DOMAIN queue) \cap (DOMAIN queue') :
            /\ queue'[i].question = queue[i].question
            /\ queue'[i].user_id = queue[i].user_id
            /\ queue'[i].open_id = queue[i].open_id]_vars

\* An owned row that the relay answered has been dismissed afterwards and
\* is still in the table with its owner.
C33_Witness ==
    \E i \in DOMAIN queue :
        /\ queue[i].status = "DISMISSED"
        /\ queue[i].answer = "yes"
        /\ queue[i].user_id = "ou_A"

C35_TimeoutDiscardsNoAnswer ==
    [][\A c \in Calls :
          (Returns(c) /\ call'[c].result.kind = "timeout")
             => ~(Has(c) /\ queue[c].status = "COMPLETED" /\ Truthy(queue[c].answer))]_vars

\* The user a reply request's credential resolves to
ReplyCaller(h) ==
    IF get_api_key_from_header(h) \in {NoKey, EmptyKey}
    THEN NULL
    ELSE get_user_by_api_key(get_api_key_from_header(h))

\* C36: a request is completed only by a caller to whom it is visible: a
\* reply sent with no credential, or with the credential of another user,
\* never completes a PENDING request owned by a user.
C36_ReplyOnlyByOwner ==
    [][\A h \in ReplyHeaders, i \in Calls :
          (/\ post_reply(h, i, "yes", NULL)
           /\ Has(i) /\ queue[i].status = "PENDING" /\ queue[i].user_id \in Users
           /\ queue'[i].status = "COMPLETED")
             => ReplyCaller(h) = queue[i].user_id]_vars

\* C37: a request submitted by an agent that is configured with a credential
\* is never created as a public row: when the credential does not resolve
\* to an active user, the question is not listed for a poll without login.
C37_CredentialedNeverPublic ==
    [][\A c \in Calls, k \in KeyStrings \ {EmptyKey} :
          Submit(c, k)
             => /\ queue'[c].user_id # NULL
                /\ c \notin PollQuestion(NoRequest)']_vars

\* The resolving half of C37: a credential of an active user makes the row
\* that user's.
ResolvedCredentialOwnsRow ==
    [][\A c \in Calls, k \in KeyStrings \ {EmptyKey} :
          (Submit(c, k) /\ get_user_by_api_key(k) # NULL)
             => /\ queue'[c].user_id = get_user_by_api_key(k)
                /\ c \notin PollQuestion(NoRequest)']_vars

\* C38: logging in again with a known identity (create_user on an existing
\* open_id) issues no second user row, keeps the user's api_key and does
\* not re-enable a disabled user; the other users are left alone.
C38_ReloginKeepsCredential ==
    /\ [](\A u \in DOMAIN users :
            LET us == CreateUser(users, u) IN
            /\ DOMAIN us = DOMAIN users
            /\ us[u].api_key = users[u].api_key
            /\ us[u].is_active = users[u].is_active
            /\ \A v \in DOMAIN users : us[v] = users[v])
    /\ [][\A u \in DOMAIN users : create_user(u) => users' = users]_vars

\* A disabled user holds a regenerated credential while another user is
\* active: the state in which the disabled user logs in again.
C38_Witness ==
    \E u, v \in DOMAIN users :
        /\ ~users[u].is_active
        /\ users[u].api_key = GenerateApiKey(u, 1)
        /\ v # u /\ users[v].is_active

\* The calls that have started and not yet returned
InFlight ==
    {c \in Calls : \/ call[c].pc = "polling"
                   \/ call[c].pc = "idle" /\ push[c].status # "none"}

\* C39: the chat-relay service keeps no entry for a request whose call has
\* returned, so it holds at most as many entries as there are calls in
\* flight.
C39_NoEntryAfterReturn ==
    /\ \A c \in Calls : call[c].pc \in {"done", "failed"} => c \notin PendingMessages
    /\ Cardinality(PendingMessages) <= Cardinality(InFlight)

\* the entries of the relay service are those of the calls whose push was sent
TrackedIffSent ==
    \A c \in Calls : c \in PendingMessages <=> push[c].status = "sent"

====
